---- MODULE Spec2Model ----
(***************************************************************************)
(* Model of src/main.py: the BossData store (an in-memory document, a JSON *)
(* file, one class-level threading.Lock) and the BossNotifier command      *)
(* handlers that call it.  Callers are threads: the store's methods are    *)
(* plain synchronous methods guarded by a threading.Lock, so every         *)
(* statement of a method is one step and steps of different callers        *)
(* interleave freely.                                                      *)
(***************************************************************************)
EXTENDS Integers, Sequences, FiniteSets, TLC

\* ---------------------------------------------------------------- bounds
NThreads == 2
MaxCalls == 3

Threads == 1..NThreads
NoThread == 0

\* ------------------------------------------------------------ input sets
Ids == {"1001", "1002"}

\* datetime.now().strftime("%Y/%m/%d-%H:%M"): the clock reading of the run
NowStr == "NOW"
\* time_str argument of the update command: "" stands for an omitted one
TimeArgs == {"", "2025/08/29-10:00"}

\* ------------------------------------------------------------- documents
\* data["boss"]: <<>> is the empty dict, <<r>> a dict with the six keys
NoBoss == <<>>

BossDict(place, name, iv, nature, feature, time_str) ==
  << [place |-> place, name |-> name, iv |-> iv, nature |-> nature,
      feature |-> feature,
      time |-> IF time_str = "" THEN NowStr ELSE time_str] >>

EmptyDoc == [subs |-> <<>>, boss |-> NoBoss]

\* ------------------------------------------------------------ file states
\* kind: "absent" (no file), "unreadable" (open for reading raises),
\* "garbage" (not valid JSON), "empty" (truncated to zero length),
\* "partial" (a proper prefix of a serialization), "doc" (a whole document)
FileOf(kind) == [kind |-> kind, subs |-> <<>>, boss |-> NoBoss]
DocFile(d) == [kind |-> "doc", subs |-> d.subs, boss |-> d.boss]

SampleBoss == BossDict("Zone-1", "Monster", "29", "Lonely", "Aura", "2025/08/29-10:00")

\* the files a start can find; a file holding JSON of another shape than a
\* document is not among them
InitFiles ==
  { FileOf("absent"), FileOf("unreadable"), FileOf("garbage"),
    DocFile(EmptyDoc),
    DocFile([subs |-> <<"1001">>, boss |-> SampleBoss]) }

\* ------------------------------------------------------------- list ops
Range(s) == { s[i] : i \in 1..Len(s) }

\* user_id in self.data["subscriptions"]
Contains(s, x) == x \in Range(s)

Count(s, x) == Cardinality({ i \in 1..Len(s) : s[i] = x })

\* list.append
ListAppend(s, x) == Append(s, x)

\* list.remove: drops the first occurrence (the caller checks presence)
ListRemove(s, x) ==
  LET i == CHOOSE j \in 1..Len(s) : s[j] = x /\ \A k \in 1..(j-1) : s[k] # x
  IN  SubSeq(s, 1, i-1) \o SubSeq(s, i+1, Len(s))

\* ------------------------------------------------------------- messages
TextNoRecord     == <<"NoRecordSentence">>
TextSubscribed   == <<"Subscribed">>
TextUnsubscribed == <<"Unsubscribed">>
TextUpdated      == <<"Updated">>
TextNotified     == <<"NotifiedAll">>

\* the rendered block: title, then time, place, name, iv, nature, feature
FormatBossMd(boss) ==
  IF boss = NoBoss THEN TextNoRecord
  ELSE LET b == boss[1]
       IN  <<"Title", b.time, b.place, b.name, b.iv, b.nature, b.feature>>

\* context.send_message(origin, MessageChain(ats + [Plain(text)]))
SendMsg(ats, text) == [via |-> "send", ats |-> ats, text |-> text]
\* yield event.plain_result(text)
PlainResult(text) == [via |-> "reply", ats |-> <<>>, text |-> text]

VARIABLES
  store,     \* "new" | "loaded" | "failed": the module-level BossData()
  dir,       \* "present" | "absent" | "uncreatable": the data directory
  file,      \* the content of boss_data.json
  data,      \* self.data
  lock,      \* holder of BossData.LOCK, or NoThread
  pc,        \* per thread: position in its handler
  cmd,       \* per thread: the command being handled
  arg,       \* per thread: target id, or the time_str of an update
  wres,      \* per thread: "none" | "ok" | "fail" | "raised"
  tries,     \* per thread: file opens made by the current call
  buf,       \* what the lock holder has serialized so far
  chain,     \* notify_boss: at_chain
  info,      \* notify_boss: boss_info
  out,       \* per thread: messages the current handler has sent
  calls,     \* handlers started so far
  prevFile,  \* history: the file as it was before the latest write attempt
  lastTry    \* history: outcome of the latest write attempt

vars == <<store, dir, file, data, lock, pc, cmd, arg, wres, tries, buf,
          chain, info, out, calls, prevFile, lastTry>>

storeVars == <<store, dir>>
histVars == <<prevFile, lastTry>>
notifyVars == <<chain, info>>

NoArg == [id |-> "", time |-> ""]

Init ==
  /\ store = "new"
  /\ dir \in {"present", "absent", "uncreatable"}
  /\ file \in InitFiles
  /\ (dir # "present" => file = FileOf("absent"))
  /\ data = EmptyDoc
  /\ lock = NoThread
  /\ pc = [t \in Threads |-> "idle"]
  /\ cmd = [t \in Threads |-> "none"]
  /\ arg = [t \in Threads |-> NoArg]
  /\ wres = [t \in Threads |-> "none"]
  /\ tries = [t \in Threads |-> 0]
  /\ buf = EmptyDoc
  /\ chain = [t \in Threads |-> <<>>]
  /\ info = [t \in Threads |-> <<>>]
  /\ out = [t \in Threads |-> <<>>]
  /\ calls = 0
  /\ prevFile = file
  /\ lastTry = "none"

\* ------------------------------------------------- BossData.__init__
\* lines 25-30: json.load of an existing file; any exception (unreadable, not
\* JSON) is caught and resets the document
LoadResult(f) ==
  IF f.kind = "doc" THEN [subs |-> f.subs, boss |-> f.boss] ELSE EmptyDoc

\* os.makedirs on a missing directory succeeds or raises
Construct ==
  /\ store = "new"
  /\ IF dir = "uncreatable"
       THEN /\ store' = "failed"
            /\ UNCHANGED <<dir, data>>
       ELSE /\ store' = "loaded"
            /\ dir' = "present"
            /\ data' = IF file.kind = "absent" THEN EmptyDoc ELSE LoadResult(file)
  /\ UNCHANGED <<file, lock, pc, cmd, arg, wres, tries, buf, chain, info, out,
                 calls, prevFile, lastTry>>

\* ------------------------------------------------------ command handlers
Commands == {"sub", "unsub", "upd", "notify"}

\* first statement of the store method (or handler body) each command runs
Entry(c) ==
  CASE c = "sub"    -> "check"
    [] c = "unsub"  -> "check"
    [] c = "upd"    -> "mutate"
    [] c = "notify" -> "ncheck"

\* the arguments a command can carry
ArgsOf(c) ==
  CASE c = "sub"    -> [id : Ids, time : {""}]
    [] c = "unsub"  -> [id : Ids, time : {""}]
    [] c = "upd"    -> [id : {""}, time : TimeArgs]
    [] c = "notify" -> {NoArg}

\* a handler is dispatched: subscribe / unsubscribe resolve target_qq,
\* update_boss receives its arguments, notify_boss has none
Dispatch(t, c, a) ==
  /\ store = "loaded"
  /\ pc[t] = "idle"
  /\ calls < MaxCalls
  /\ cmd' = [cmd EXCEPT ![t] = c]
  /\ pc' = [pc EXCEPT ![t] = Entry(c)]
  /\ arg' = [arg EXCEPT ![t] = a]
  /\ calls' = calls + 1
  /\ UNCHANGED <<storeVars, file, data, lock, wres, tries, buf, notifyVars,
                 out, histVars>>

Start(t) == \E c \in Commands : \E a \in ArgsOf(c) : Dispatch(t, c, a)

\* faulty variant: the membership test is missing
NeedsMutationAlways(c, subs, id) == TRUE

\* add_subscription line 42 / remove_subscription line 48: the membership test
NeedsMutation(c, subs, id) ==
  IF c = "sub" THEN ~Contains(subs, id) ELSE Contains(subs, id)

Check(t) ==
  /\ pc[t] = "check"
  /\ pc' = [pc EXCEPT ![t] =
        IF NeedsMutation(cmd[t], data.subs, arg[t].id) THEN "mutate" ELSE "reply"]
  /\ UNCHANGED <<storeVars, file, data, lock, cmd, arg, wres, tries, buf,
                 notifyVars, out, calls, histVars>>

\* faulty variant: the subscriber list is assigned instead of appended to
MutatedReplace(c, d, a) ==
  CASE c = "sub"   -> [d EXCEPT !.subs = <<a.id>>]
    [] c = "unsub" -> [d EXCEPT !.subs = ListRemove(d.subs, a.id)]
    [] c = "upd"   -> [d EXCEPT !.boss =
                         BossDict("Zone-1", "Monster", "29", "Lonely", "Aura", a.time)]

\* the in-memory mutation of each store method
Mutated(c, d, a) ==
  CASE c = "sub"   -> [d EXCEPT !.subs = ListAppend(d.subs, a.id)]
    [] c = "unsub" -> [d EXCEPT !.subs = ListRemove(d.subs, a.id)]
    [] c = "upd"   -> [d EXCEPT !.boss =
                         BossDict("Zone-1", "Monster", "29", "Lonely", "Aura", a.time)]

\* lines 43, 49, 53-62.  list.remove raises ValueError when the element has
\* gone since the membership test; nothing catches it, so the handler ends
\* there without a reply
Mutate(t) ==
  /\ pc[t] = "mutate"
  /\ IF cmd[t] = "unsub" /\ ~Contains(data.subs, arg[t].id)
       THEN /\ wres' = [wres EXCEPT ![t] = "raised"]
            /\ pc' = [pc EXCEPT ![t] = "fin"]
            /\ UNCHANGED data
       ELSE /\ data' = Mutated(cmd[t], data, arg[t])
            /\ pc' = [pc EXCEPT ![t] = "acquire"]
            /\ UNCHANGED wres
  /\ UNCHANGED <<storeVars, file, lock, cmd, arg, tries, buf, notifyVars, out,
                 calls, histVars>>

\* ------------------------------------------------------ BossData.save_data
\* line 34: with self.LOCK
Acquire(t) ==
  /\ pc[t] = "acquire"
  /\ lock = NoThread
  /\ lock' = t
  /\ pc' = [pc EXCEPT ![t] = "open"]
  /\ UNCHANGED <<storeVars, file, data, cmd, arg, wres, tries, buf, notifyVars,
                 out, calls, histVars>>

\* line 35: open(DATA_FILE, "w") truncates the file
OpenOk(t) ==
  /\ pc[t] = "open"
  /\ file' = FileOf("empty")
  /\ prevFile' = file
  /\ lastTry' = "open"
  /\ tries' = [tries EXCEPT ![t] = @ + 1]
  /\ pc' = [pc EXCEPT ![t] = "dumpsubs"]
  /\ UNCHANGED <<storeVars, data, lock, cmd, arg, wres, buf, notifyVars, out,
                 calls>>

\* line 35 raises (permissions, I/O error): the file is not touched
OpenFail(t) ==
  /\ pc[t] = "open"
  /\ prevFile' = file
  /\ lastTry' = "fail"
  /\ tries' = [tries EXCEPT ![t] = @ + 1]
  /\ wres' = [wres EXCEPT ![t] = "fail"]
  /\ pc' = [pc EXCEPT ![t] = "release"]
  /\ UNCHANGED <<storeVars, file, data, lock, cmd, arg, buf, notifyVars, out,
                 calls>>

\* line 36: json.dump with indent=2 runs the Python-level encoder, which walks
\* self.data key by key while other threads run: "subscriptions" first
DumpSubs(t) ==
  /\ pc[t] = "dumpsubs"
  /\ buf' = [subs |-> data.subs, boss |-> NoBoss]
  /\ pc' = [pc EXCEPT ![t] = "dumpboss"]
  /\ UNCHANGED <<storeVars, file, data, lock, cmd, arg, wres, tries, notifyVars,
                 out, calls, histVars>>

\* faulty variant: only the subscriber list is serialized
DumpBossSkip(t) ==
  /\ pc[t] = "dumpboss"
  /\ pc' = [pc EXCEPT ![t] = "close"]
  /\ UNCHANGED <<storeVars, file, data, lock, cmd, arg, wres, tries, buf,
                 notifyVars, out, calls, histVars>>

\* ... then "boss"
DumpBoss(t) ==
  /\ pc[t] = "dumpboss"
  /\ buf' = [buf EXCEPT !.boss = data.boss]
  /\ pc' = [pc EXCEPT ![t] = "close"]
  /\ UNCHANGED <<storeVars, file, data, lock, cmd, arg, wres, tries, notifyVars,
                 out, calls, histVars>>

\* what a write that raises after the truncation leaves on disk
AfterFailedWrite == { FileOf("empty"), FileOf("partial") }

\* leaving the inner with: the buffered text is flushed and the file closed
CloseOk(t) ==
  /\ pc[t] = "close"
  /\ file' = DocFile(buf)
  /\ lastTry' = "ok"
  /\ wres' = [wres EXCEPT ![t] = "ok"]
  /\ pc' = [pc EXCEPT ![t] = "release"]
  /\ UNCHANGED <<storeVars, data, lock, cmd, arg, tries, buf, notifyVars, out,
                 calls, prevFile>>

\* the flush raises (disk full, I/O error)
CloseFail(t) ==
  /\ pc[t] = "close"
  /\ file' \in AfterFailedWrite
  /\ lastTry' = "fail"
  /\ wres' = [wres EXCEPT ![t] = "fail"]
  /\ pc' = [pc EXCEPT ![t] = "release"]
  /\ UNCHANGED <<storeVars, data, lock, cmd, arg, tries, buf, notifyVars, out,
                 calls, prevFile>>

\* faulty variant: acquire/release without a with block, so an exception skips the
\* release
ReleaseUnlessFailed(t) ==
  /\ pc[t] = "release"
  /\ lock' = IF wres[t] = "fail" THEN lock ELSE NoThread
  /\ buf' = EmptyDoc
  /\ pc' = [pc EXCEPT ![t] = "reply"]
  /\ UNCHANGED <<storeVars, file, data, cmd, arg, wres, tries, notifyVars, out,
                 calls, histVars>>

\* leaving with self.LOCK, on the normal and on the exceptional path; the
\* except clause logs and save_data, then the store method, return
Release(t) ==
  /\ pc[t] = "release"
  /\ lock' = NoThread
  /\ buf' = EmptyDoc
  /\ pc' = [pc EXCEPT ![t] = "reply"]
  /\ UNCHANGED <<storeVars, file, data, cmd, arg, wres, tries, notifyVars, out,
                 calls, histVars>>

\* ---------------------------------------------- handler replies (88-130)
ReplyOf(c, a) ==
  CASE c = "sub"   -> SendMsg(<<a.id>>, TextSubscribed)
    [] c = "unsub" -> SendMsg(<<a.id>>, TextUnsubscribed)
    [] c = "upd"   -> PlainResult(TextUpdated)

\* faulty variant: a failed save is reported to the user
ReplyReportsFailure(t) ==
  /\ pc[t] = "reply"
  /\ out' = [out EXCEPT ![t] = Append(@,
        IF wres[t] = "fail" THEN PlainResult(<<"SaveFailed">>)
        ELSE ReplyOf(cmd[t], arg[t]))]
  /\ pc' = [pc EXCEPT ![t] = "fin"]
  /\ UNCHANGED <<storeVars, file, data, lock, cmd, arg, wres, tries, buf,
                 notifyVars, calls, histVars>>

Reply(t) ==
  /\ pc[t] = "reply"
  /\ out' = [out EXCEPT ![t] = Append(@, ReplyOf(cmd[t], arg[t]))]
  /\ pc' = [pc EXCEPT ![t] = "fin"]
  /\ UNCHANGED <<storeVars, file, data, lock, cmd, arg, wres, tries, buf,
                 notifyVars, calls, histVars>>

\* ------------------------------------------------ notify_boss (141-153)
\* line 144
NCheck(t) ==
  /\ pc[t] = "ncheck"
  /\ IF data.boss = NoBoss
       THEN /\ out' = [out EXCEPT ![t] = Append(@, PlainResult(TextNoRecord))]
            /\ pc' = [pc EXCEPT ![t] = "fin"]
       ELSE /\ pc' = [pc EXCEPT ![t] = "nchain"]
            /\ UNCHANGED out
  /\ UNCHANGED <<storeVars, file, data, lock, cmd, arg, wres, tries, buf,
                 notifyVars, calls, histVars>>

\* line 148
AtChain(subs) == subs

NChain(t) ==
  /\ pc[t] = "nchain"
  /\ chain' = [chain EXCEPT ![t] = AtChain(data.subs)]
  /\ pc' = [pc EXCEPT ![t] = "nformat"]
  /\ UNCHANGED <<storeVars, file, data, lock, cmd, arg, wres, tries, buf, info,
                 out, calls, histVars>>

\* line 149
NFormat(t) ==
  /\ pc[t] = "nformat"
  /\ info' = [info EXCEPT ![t] = FormatBossMd(data.boss)]
  /\ pc' = [pc EXCEPT ![t] = "nsend"]
  /\ UNCHANGED <<storeVars, file, data, lock, cmd, arg, wres, tries, buf, chain,
                 out, calls, histVars>>

\* lines 150-151
NSend(t) ==
  /\ pc[t] = "nsend"
  /\ out' = [out EXCEPT ![t] = Append(@, SendMsg(chain[t], info[t]))]
  /\ pc' = [pc EXCEPT ![t] = "nreply"]
  /\ UNCHANGED <<storeVars, file, data, lock, cmd, arg, wres, tries, buf,
                 notifyVars, calls, histVars>>

\* line 153
NReply(t) ==
  /\ pc[t] = "nreply"
  /\ out' = [out EXCEPT ![t] = Append(@, PlainResult(TextNotified))]
  /\ pc' = [pc EXCEPT ![t] = "fin"]
  /\ UNCHANGED <<storeVars, file, data, lock, cmd, arg, wres, tries, buf,
                 notifyVars, calls, histVars>>

\* the handler is over: its locals go away
Finish(t) ==
  /\ pc[t] = "fin"
  /\ pc' = [pc EXCEPT ![t] = "idle"]
  /\ cmd' = [cmd EXCEPT ![t] = "none"]
  /\ arg' = [arg EXCEPT ![t] = NoArg]
  /\ wres' = [wres EXCEPT ![t] = "none"]
  /\ tries' = [tries EXCEPT ![t] = 0]
  /\ chain' = [chain EXCEPT ![t] = <<>>]
  /\ info' = [info EXCEPT ![t] = <<>>]
  /\ out' = [out EXCEPT ![t] = <<>>]
  /\ UNCHANGED <<storeVars, file, data, lock, buf, calls, histVars>>

\* every step of a running handler
Step(t) ==
  \/ Check(t) \/ Mutate(t) \/ Acquire(t)
  \/ OpenOk(t) \/ OpenFail(t) \/ DumpSubs(t) \/ DumpBoss(t)
  \/ CloseOk(t) \/ CloseFail(t) \/ Release(t) \/ Reply(t)
  \/ NCheck(t) \/ NChain(t) \/ NFormat(t) \/ NSend(t) \/ NReply(t)
  \/ Finish(t)

Next ==
  \/ Construct
  \/ \E t \in Threads : Start(t)
  \/ \E t \in Threads : Step(t)

Spec == Init /\ [][Next]_vars

\* ------------------------------------------------- derived state predicates
\* positions inside a mutating store call (add_subscription,
\* remove_subscription, update_boss), save_data included
CallPcs == {"check", "mutate", "acquire", "open", "dumpsubs", "dumpboss",
            "close", "release"}
InCall(t) == pc[t] \in CallPcs

\* from the membership test just made (or, for update_boss, the assignment
\* about to be made) to the end of the file write
RmwPcs == {"mutate", "acquire", "open", "dumpsubs", "dumpboss", "close"}
InRMW(t) == pc[t] \in RmwPcs

Quiet == \A t \in Threads : ~InCall(t)

NoDuplicates(s) == \A i, j \in 1..Len(s) : s[i] = s[j] => i = j

\* ===================================================================== C2
\* the lock is held at every position of the read-modify-write
C2_LockHeld == \A t \in Threads : InRMW(t) => lock = t

C2_NoInterference ==
  \A t \in Threads :
    (InRMW(t) /\ pc'[t] = pc[t]) =>
       /\ data' = data
       /\ file' = file
       /\ \A u \in Threads \ {t} : pc[u] = "check" => pc'[u] = "check"

\* C2: every mutating call holds the exclusive lock for the whole of its
\* read-modify-write, and while it is inside it no other call reads the
\* membership, mutates the in-memory document or writes the file.
C2_LockCoversReadModifyWrite == [](C2_LockHeld) /\ [][C2_NoInterference]_vars

\* ===================================================================== C3
\* C3: whenever no write is in progress the file is either what it was before
\* the latest write attempt or the complete document that attempt stored;
\* never empty, truncated or partial.
C3_FileOldOrNew ==
  lock = NoThread =>
     \/ file = prevFile
     \/ (lastTry = "ok" /\ file.kind = "doc")

\* ===================================================================== C4
\* C4: when no mutating call is in progress and the latest file write
\* succeeded, the file holds exactly the in-memory document.
C4_Converged == (Quiet /\ lastTry = "ok") => file = DocFile(data)

C4_Witness ==
  /\ Quiet
  /\ lastTry = "ok"
  /\ \E t \in Threads : pc[t] = "fin" /\ wres[t] = "ok" /\ cmd[t] = "upd"
  /\ data.subs = <<"1001">>
  /\ data.boss # NoBoss
  /\ file.kind = "doc" /\ file.subs = data.subs /\ file.boss = data.boss

\* ===================================================================== C5
\* the reply each handler sends after its store call (lines 101-105,
\* 120-124, 130)
UsualReply(t) ==
  CASE cmd[t] = "sub"   -> [via |-> "send", ats |-> <<arg[t].id>>, text |-> TextSubscribed]
    [] cmd[t] = "unsub" -> [via |-> "send", ats |-> <<arg[t].id>>, text |-> TextUnsubscribed]
    [] cmd[t] = "upd"   -> [via |-> "reply", ats |-> <<>>, text |-> TextUpdated]

C5_FailStep(t) ==
  (wres[t] # "fail" /\ wres'[t] = "fail") =>
     /\ data' = data
     /\ pc'[t] = "release"

C5_AfterFail(t) ==
  (wres[t] = "fail" /\ pc'[t] # pc[t]) =>
     /\ data' = data
     /\ file' = file
     /\ tries'[t] = IF pc'[t] = "idle" THEN 0 ELSE 1
     /\ pc[t] = "release" => (pc'[t] = "reply" /\ lock' = NoThread)
     /\ pc[t] = "reply" => (pc'[t] = "fin" /\ out'[t] = <<UsualReply(t)>>)
     /\ pc[t] = "fin" => pc'[t] = "idle"

\* C5: a failed file write does not fail the call: the step that fails keeps
\* the in-memory document and goes on to release the lock, the call returns
\* to the handler, the file is opened at most once per call, and the handler
\* sends the same reply as after a successful write.
C5_PersistFailureSwallowed ==
  [][\A t \in Threads : C5_FailStep(t) /\ C5_AfterFail(t)]_vars

C5_Witness ==
  \E t \in Threads :
    /\ pc[t] = "fin" /\ wres[t] = "fail" /\ cmd[t] = "sub"
    /\ out[t] = <<SendMsg(<<arg[t].id>>, TextSubscribed)>>
    /\ Contains(data.subs, arg[t].id)
    /\ file.kind # "doc"

\* ===================================================================== C6
\* C6: no identifier appears twice in the in-memory subscriber list or in the
\* persisted one.
C6_Unique ==
  /\ NoDuplicates(data.subs)
  /\ file.kind = "doc" => NoDuplicates(file.subs)

\* ===================================================================== C7
\* the document the constructor is to end with, by file case
C7_Expected(f) == IF f.kind = "doc" THEN [subs |-> f.subs, boss |-> f.boss]
                  ELSE [subs |-> <<>>, boss |-> <<>>]

\* C7: construction never fails; an absent, unreadable or invalid file gives
\* the empty document, a valid one gives its content.
C7_ConstructNeverFails ==
  store # "new" =>
     /\ store = "loaded"
     /\ calls = 0 => data = C7_Expected(file)

\* ===================================================================== C8
\* a call about to find its id already present (add) or absent (remove)
C8_IsNoOp(t) ==
  /\ pc[t] = "check"
  /\ \/ cmd[t] = "sub" /\ arg[t].id \in Range(data.subs)
     \/ cmd[t] = "unsub" /\ arg[t].id \notin Range(data.subs)

C8_Step(t) ==
  /\ (C8_IsNoOp(t) /\ pc'[t] # pc[t]) =>
        /\ pc'[t] = "reply"
        /\ tries'[t] = 0
        /\ data' = data /\ file' = file /\ lock' = lock
  /\ (pc[t] \in {"reply", "fin"} /\ tries[t] = 0 /\ pc'[t] # pc[t]) =>
        /\ pc'[t] \in {"fin", "idle"}
        /\ tries'[t] = 0
        /\ data' = data /\ file' = file /\ lock' = lock

\* C8: adding a present id or removing an absent one changes neither the
\* in-memory document nor the file, and the call returns without opening the
\* file.
C8_NoOpCalls == [][\A t \in Threads : C8_Step(t)]_vars

C8_Witness ==
  \E t, u \in Threads :
    /\ pc[t] = "reply" /\ cmd[t] = "sub" /\ tries[t] = 0
    /\ Contains(data.subs, arg[t].id)
    /\ pc[u] = "reply" /\ cmd[u] = "unsub" /\ tries[u] = 0
    /\ ~Contains(data.subs, arg[u].id)

\* ==================================================================== C10
\* what each statement of notify_boss is to do
C10_Step(t) ==
  (cmd[t] = "notify" /\ pc'[t] # pc[t]) =>
     /\ data' = data /\ file' = file
     /\ pc[t] = "ncheck" =>
          IF data.boss = NoBoss
            THEN pc'[t] = "fin" /\ out'[t] = <<PlainResult(TextNoRecord)>>
            ELSE pc'[t] = "nchain" /\ out'[t] = <<>>
     /\ pc[t] = "nchain" =>
          /\ chain'[t] = data.subs
          /\ NoDuplicates(chain'[t])
     /\ pc[t] = "nformat" =>
          (data.boss # NoBoss /\
           info'[t] = <<"Title", data.boss[1].time, data.boss[1].place,
                        data.boss[1].name, data.boss[1].iv,
                        data.boss[1].nature, data.boss[1].feature>>)
     /\ pc[t] = "nsend" =>
          out'[t] = <<[via |-> "send", ats |-> chain[t], text |-> info[t]]>>
     /\ pc[t] = "nreply" =>
          /\ Len(out[t]) = 1
          /\ out'[t] = Append(out[t], PlainResult(TextNotified))

\* C10: notify-all with a record set sends one broadcast whose at-mentions
\* are the registered subscribers, each once and in order, followed by the
\* rendered record, then the confirmation; with no record it only replies
\* with the no-record sentence; it never changes the document or the file.
C10_NotifyAll == [][\A t \in Threads : C10_Step(t)]_vars

\* ===================================================================== C1
\* Concurrent add_subscription calls with pairwise distinct ids, none of
\* them in the loaded document, each thread making one call, no write
\* failing.
AddIds == {"1001", "1002", "1003"}

AddsInit ==
  /\ Init
  /\ dir # "uncreatable"
  /\ LoadResult(file) = EmptyDoc

StartAdd(t) ==
  \E id \in AddIds :
    /\ cmd[t] = "none"
    /\ ~Contains(data.subs, id)
    /\ \A u \in Threads : arg[u].id # id
    /\ Dispatch(t, "sub", [id |-> id, time |-> ""])

AddStep(t) ==
  \/ Check(t) \/ Mutate(t) \/ Acquire(t) \/ OpenOk(t) \/ DumpSubs(t)
  \/ DumpBoss(t) \/ CloseOk(t) \/ Release(t) \/ Reply(t)

AddsNext ==
  \/ Construct
  \/ \E t \in Threads : StartAdd(t)
  \/ \E t \in Threads : AddStep(t)

AddsSpec == AddsInit /\ [][AddsNext]_vars

Called == { t \in Threads : cmd[t] = "sub" }
AllReturned == Called # {} /\ \A t \in Called : pc[t] \in {"reply", "fin"}

\* C1: once all the N calls have returned, the in-memory list and the file
\* hold exactly the N ids, each once.
C1_NoneLost ==
  AllReturned =>
     /\ \A t \in Called : Count(data.subs, arg[t].id) = 1
     /\ Range(data.subs) = { arg[t].id : t \in Called }
     /\ Len(data.subs) = Cardinality(Called)
     /\ file.kind = "doc"
     /\ file.subs = data.subs

C1_Witness ==
  /\ AllReturned
  /\ Called = Threads
  /\ Len(data.subs) = NThreads
  /\ file.kind = "doc" /\ Len(file.subs) = NThreads

\* ============================================================ store runs
\* The store's mutating operations alone, from a start with no file: the
\* subscribe command with one id, unsubscribe with either, update_boss with
\* no time_str.
StoreInit ==
  /\ Init
  /\ dir = "present"
  /\ file = FileOf("absent")

StoreArgs(c) ==
  CASE c = "sub"   -> [id : {"1001"}, time : {""}]
    [] c = "unsub" -> [id : Ids, time : {""}]
    [] c = "upd"   -> [id : {""}, time : {""}]

StartStore(t) ==
  \E c \in {"sub", "unsub", "upd"} : \E a \in StoreArgs(c) : Dispatch(t, c, a)

StoreStep(t) ==
  \/ Check(t) \/ Mutate(t) \/ Acquire(t)
  \/ OpenOk(t) \/ OpenFail(t) \/ DumpSubs(t) \/ DumpBoss(t)
  \/ CloseOk(t) \/ CloseFail(t) \/ Release(t) \/ Reply(t) \/ Finish(t)

StoreNext ==
  \/ Construct
  \/ \E t \in Threads : StartStore(t)
  \/ \E t \in Threads : StoreStep(t)

StoreSpec == StoreInit /\ [][StoreNext]_vars

\* ===================================================================== C9
\* Fair scheduling: a thread that can take a step eventually takes one, and
\* a thread waiting for the lock gets it if it is free again and again.
Fairness ==
  \A t \in Threads : WF_vars(StoreStep(t)) /\ SF_vars(Acquire(t))

FairSpec == StoreSpec /\ Fairness

LockPcs == {"open", "dumpsubs", "dumpboss", "close", "release"}

\* C9: every call returns, the lock is held only inside save_data, and it is
\* released after every write attempt, a failed one included.
C9_NoBlocking ==
  /\ [](\A t \in Threads : lock = t => pc[t] \in LockPcs)
  /\ \A t \in Threads : InCall(t) ~> ~InCall(t)
  /\ \A t \in Threads : (lock = t) ~> (lock = NoThread)

C9_Witness ==
  \E t, u \in Threads :
    /\ t # u
    /\ wres[t] = "fail" /\ pc[t] \in {"reply", "fin"}
    /\ lock = u /\ pc[u] = "release" /\ wres[u] = "ok"
====
